---- MODULE Spec2Model ----
(***************************************************************************)
(* Bookkeeping backend: session authentication, admin gating, CRUD on the  *)
(* expense and gain tables, and the sequential slNo computation.           *)
(* Strings whose characters matter (slNo, the :id path segment) are        *)
(* sequences of one-character strings.                                     *)
(***************************************************************************)
EXTENDS Integers, Sequences, FiniteSets, TLC

\* ------------------------------------------------------------------ bounds
MaxId == 2          \* serial values handed out per table before it stops
MaxUsers == 3       \* serial values handed out for the users table
NumReq == 2         \* requests between two of their store calls at once
NumSess == 1        \* browser sessions (a session can log in again as another user)

\* ------------------------------------------------------- text primitives
Digits == <<"0", "1", "2", "3", "4", "5", "6", "7", "8", "9">>

\* characters in code-point order, as text comparison orders them
Alphabet == <<"0", "1", "2", "3", "4", "5", "6", "7", "8", "9",
              "E", "G", "N", "P", "X", "a">>

IsDigit(c) == \E d \in 1..10 : Digits[d] = c

DigitVal(c) == (CHOOSE d \in 1..10 : Digits[d] = c) - 1

CharCode(c) == CHOOSE i \in 1..Len(Alphabet) : Alphabet[i] = c

\* a < b in the ordering of the text type
StrLess(a, b) ==
  \E i \in 1..(Len(b)) :
     /\ \A j \in 1..(i - 1) : j <= Len(a) /\ a[j] = b[j]
     /\ \/ i > Len(a)
        \/ i <= Len(a) /\ CharCode(a[i]) < CharCode(b[i])

\* Not-a-Number, the result of parseInt on text without a leading digit
NaN == -1

RECURSIVE DigitsValue(_)
DigitsValue(s) ==
  IF s = <<>> THEN 0
  ELSE 10 * DigitsValue(SubSeq(s, 1, Len(s) - 1)) + DigitVal(s[Len(s)])

LeadingDigits(s) ==
  LET n == CHOOSE k \in 0..Len(s) :
             /\ \A j \in 1..k : IsDigit(s[j])
             /\ (k < Len(s) => ~IsDigit(s[k + 1]))
  IN SubSeq(s, 1, n)

\* parseInt(text): the value of the leading run of digits, NaN without one
parseInt(s) ==
  IF LeadingDigits(s) = <<>> THEN NaN ELSE DigitsValue(LeadingDigits(s))

RECURSIVE String(_)
\* String(number): decimal digits without leading zero, "NaN" for NaN
String(n) ==
  IF n = NaN THEN <<"N", "a", "N">>
  ELSE IF n < 10 THEN <<Digits[n + 1]>>
  ELSE Append(String(n \div 10), Digits[(n % 10) + 1])

RECURSIVE padStart(_, _, _)
padStart(s, n, c) == IF Len(s) >= n THEN s ELSE padStart(<<c>> \o s, n, c)

\* SQL substring(text from n)
substring(s, from) == SubSeq(s, from, Len(s))

\* SQL max() over a column of text: NULL on no rows
SqlNull == [null |-> TRUE, v |-> <<>>]
SqlMax(S) ==
  IF S = {} THEN SqlNull
  ELSE [null |-> FALSE,
        v |-> CHOOSE m \in S : \A x \in S : x = m \/ StrLess(x, m)]

Prefix(k) == IF k = "expense" THEN <<"E", "X", "P">> ELSE <<"G", "N">>

\* the number of rows taken for the largest suffix
selectMaxSlNo_count(k, rows) ==
  IF rows = {} THEN SqlNull
  ELSE [null |-> FALSE, v |-> String(Cardinality(rows))]

\* select max(substring(sl_no from 4)) from expenses   (from 3 for gains)
selectMaxSlNo(k, rows) ==
  LET from == IF k = "expense" THEN 4 ELSE 3
  IN SqlMax({substring(row.slNo, from) : row \in rows})

\* getNextExpenseSlNo / getNextGainSlNo over the rows of the kind's table
getNextSlNo(k, rows) ==
  LET maxSlNo == selectMaxSlNo(k, rows)
      counter == IF (~maxSlNo.null) /\ maxSlNo.v # <<>>
                 THEN (IF parseInt(maxSlNo.v) = NaN THEN NaN
                       ELSE parseInt(maxSlNo.v) + 1)
                 ELSE 1
  IN Prefix(k) \o padStart(String(counter), 3, "0")


\* ------------------------------------------------------------ the schema
Kinds == {"expense", "gain"}

\* users table after initializeDefaultUsers
DefaultUsers ==
  { [id |-> 1, username |-> "admin", password |-> "786786",
     name |-> "Admin User", role |-> "admin"],
    [id |-> 2, username |-> "staff1", password |-> "1234",
     name |-> "Staff User", role |-> "staff"] }

\* columns of transactionFields
Columns == {"id", "slNo", "date", "time", "name", "type", "detail",
            "paymentType", "amount", "createdBy"}

\* insertExpenseSchema / insertGainSchema: every column but id, all required
InsertFields == Columns \ {"id"}

\* insertUserSchema: role has a column default, hence optional
UserRequired == {"username", "password", "name"}
UserFields == UserRequired \cup {"role"}

Restrict(f, S) == [x \in (DOMAIN f) \cap S |-> f[x]]

\* object spread {...a, ...b}
Spread(a, b) ==
  [x \in (DOMAIN a) \cup (DOMAIN b) |-> IF x \in DOMAIN b THEN b[x] ELSE a[x]]

\* a schema that takes slNo for optional
ZodOk_lax(x, required) == (required \ {"slNo"}) \subseteq DOMAIN x

\* schema.parse(x): strips unknown keys, throws ZodError on a missing field
ZodOk(x, required) == required \subseteq DOMAIN x

\* the user without the password field
UserInfo(u) == Restrict(u, (DOMAIN u) \ {"password"})

\* ------------------------------------------------------------- the inputs
Reqs == 1..NumReq
Sessions == 1..NumSess

SlNoOf(k, n) == Prefix(k) \o padStart(String(n), 3, "0")
\* the slNo values that request bodies carry
SlNoPool(k) == {SlNoOf(k, 1), SlNoOf(k, 2)}

BaseBody ==
  [date |-> "2024-01-01", time |-> "10:00", name |-> "n", type |-> "t",
   detail |-> "d", paymentType |-> "cash", amount |-> 10]

EmptyBody == [x \in {} |-> 0]

\* bodies of POST /api/expenses and /api/gains
CreateBodies(k) ==
  {BaseBody} \cup {Spread(BaseBody, [slNo |-> s]) : s \in SlNoPool(k)}
  \cup {Spread(BaseBody, [slNo |-> SlNoOf(k, 1), createdBy |-> 1, id |-> 1])}

\* bodies of PUT /api/expenses/:id and /api/gains/:id
UpdateBodies(k) ==
  {EmptyBody, [amount |-> 20]} \cup {[slNo |-> s] : s \in SlNoPool(k)}

\* bodies of POST /api/users
UserBodies ==
  { [username |-> "bob", password |-> "pw", name |-> "Bob"],
    [username |-> "admin", password |-> "pw", name |-> "Eve", role |-> "admin"],
    [password |-> "pw", name |-> "Nameless"] }

\* bodies of POST /api/login
LoginBodies ==
  { [username |-> "admin", password |-> "786786"],
    [username |-> "staff1", password |-> "1234"],
    [username |-> "admin", password |-> "1234"],
    [username |-> "bob", password |-> "1234"],
    [username |-> "", password |-> "1234"] }

\* the login bodies that hold the credentials of a seeded account
DefaultLogins ==
  LoginBodies \cap {[username |-> u.username, password |-> u.password] :
                      u \in DefaultUsers}

\* the :id path segment
IdParams == {String(i) : i \in 1..MaxId} \cup {<<"x">>}

Routes == {"me", "users.post", "list", "nextslno", "create", "put", "delete"}
AdminRoutes == {"put", "delete", "users.post"}

\* ------------------------------------------------------------- the state
\* users, tables: the rows of the three tables; seq: the next value of each
\* table's id serial; session: the userId bound to each session (0: none);
\* kind: the record kind this run's /api/expenses or /api/gains requests
\* address (no handler of one kind reads or writes the other kind's table);
\* req: the requests that are between two store calls; out: the request
\* that the latest step finished, with its response.
\* faulty: whether the database of this run can fail a call unexpectedly
\* (connection lost), which no request causes or prevents.
VARIABLES users, tables, seq, session, kind, faulty, req, out

vars == <<users, tables, seq, session, kind, faulty, req, out>>

store == <<users, tables>>

Idle ==
  [pc |-> "idle", route |-> "", sess |-> 0, user |-> {}, param |-> <<>>,
   body |-> EmptyBody]

NoOut ==
  [route |-> "", sess |-> 0, user |-> {}, param |-> <<>>,
   body |-> EmptyBody, answered |-> FALSE, status |-> 0, message |-> "", data |-> {},
   removed |-> FALSE, storeFailed |-> FALSE]

Init ==
  /\ users = DefaultUsers
  /\ tables = [k \in Kinds |-> {}]
  /\ seq = [t \in Kinds \cup {"users"} |-> IF t = "users" THEN 3 ELSE 1]
  /\ session = [s \in Sessions |-> 0]
  /\ kind \in Kinds
  /\ faulty \in BOOLEAN
  /\ req = [r \in Reqs |-> Idle]
  /\ out = NoOut

\* res.status(status).json(...) ends request q
Answer(q, status, message, data) ==
  [NoOut EXCEPT !.route = q.route, !.sess = q.sess, !.user = q.user,
                !.param = q.param, !.body = q.body, !.answered = TRUE, !.status = status,
                !.message = message, !.data = data]

\* the catch block of a handler after an unexpected failure of a store call
Failed(q, message) ==
  [Answer(q, 500, message, {}) EXCEPT !.storeFailed = TRUE]

\* a rejected promise that nothing catches: request q gets no response
Dropped(q) == [NoOut EXCEPT !.route = q.route, !.sess = q.sess,
                            !.storeFailed = TRUE]

\* request r ends with the outcome o
Finish(r, o) == req' = [req EXCEPT ![r] = Idle] /\ out' = o

\* the password is not compared
loginReject_nopw(found, password) == found = {}

\* !user || user.password !== password
loginReject(found, password) ==
  found = {} \/ (\A u \in found : u.password # password)

\* POST /api/login, one store call
Login(bodies) ==
  /\ \E sess \in Sessions, b \in bodies :
       LET q == [Idle EXCEPT !.route = "login", !.sess = sess, !.body = b]
           found == {u \in users : u.username = b.username}
       IN IF b.username = "" \/ b.password = ""
          THEN /\ out' = Answer(q, 400, "Username and password are required", {})
               /\ UNCHANGED session
          ELSE \/ /\ faulty
                  /\ out' = Failed(q, "Internal server error")
                  /\ UNCHANGED session
               \/ IF loginReject(found, b.password)
                  THEN /\ out' = Answer(q, 401, "Invalid username or password", {})
                       /\ UNCHANGED session
                  ELSE \E u \in found :
                         /\ session' = [session EXCEPT ![sess] = u.id]
                         /\ out' = Answer(q, 200, "", {UserInfo(u)})
  /\ UNCHANGED <<users, tables, seq, kind, faulty, req>>

\* POST /api/logout
Logout ==
  /\ \E sess \in Sessions :
       LET q == [Idle EXCEPT !.route = "logout", !.sess = sess]
       IN \/ /\ session' = [session EXCEPT ![sess] = 0]
             /\ out' = Answer(q, 200, "Logged out successfully", {})
          \/ /\ out' = Answer(q, 500, "Failed to logout", {})
             /\ UNCHANGED session
  /\ UNCHANGED <<users, tables, seq, kind, faulty, req>>

Msg(k, e, g) == IF k = "expense" THEN e ELSE g

\* the role is not checked
requireAdmin_open(user) == TRUE

\* requireAdmin: TRUE when the request may pass
requireAdmin(user) == user.role = "admin"

\* A request to a protected route arrives: authenticate, then requireAdmin
\* on the admin routes, then GET /api/users/me answers.  authenticate has no
\* catch: when getUser rejects, the rejection leaves the middleware and the
\* framework either never answers (the promise is dropped) or answers 500
\* from its own error handler.
authenticate(r, routes) ==
  /\ req[r].pc = "idle"
  /\ \E sess \in Sessions, route \in routes :
       LET q == [Idle EXCEPT !.route = route, !.sess = sess]
           userId == session[sess]
           found == {u \in users : u.id = userId}
       IN IF userId = 0
          THEN Finish(r, Answer(q, 401, "Not authenticated", {}))
          ELSE \/ /\ faulty
                  /\ Finish(r, Dropped(q))
               \/ /\ faulty
                  /\ Finish(r, Failed(q, ""))
               \/ IF found = {}
                  THEN Finish(r, Answer(q, 401, "User not found", {}))
                  ELSE \E u \in found :
                    IF route \in AdminRoutes /\ ~requireAdmin(u)
                    THEN Finish(r, Answer([q EXCEPT !.user = {u}], 403,
                                   "Forbidden: Admin access required", {}))
                    ELSE IF route = "me"
                    THEN Finish(r, Answer([q EXCEPT !.user = {u}], 200, "",
                                          {UserInfo(u)}))
                    ELSE /\ req' = [req EXCEPT ![r] =
                              [q EXCEPT !.pc = "handler", !.user = {u}]]
                         /\ out' = NoOut
  /\ UNCHANGED <<users, tables, seq, session, kind, faulty>>

\* GET /api/expenses, GET /api/gains
GetList(r) ==
  /\ req[r].pc = "handler" /\ req[r].route = "list"
  /\ \/ /\ faulty
        /\ Finish(r, Failed(req[r], Msg(kind, "Failed to fetch expenses",
                                             "Failed to fetch gains")))
     \/ Finish(r, Answer(req[r], 200, "", tables[kind]))
  /\ UNCHANGED <<users, tables, seq, session, kind, faulty>>

\* GET /api/expenses/next-slno, GET /api/gains/next-slno
NextSlNoRoute(r) ==
  /\ req[r].pc = "handler" /\ req[r].route = "nextslno"
  /\ \/ /\ faulty
        /\ Finish(r, Failed(req[r], "Failed to generate next SL NO"))
     \/ Finish(r, Answer(req[r], 200, "",
                         {[slNo |-> getNextSlNo(kind, tables[kind])]}))
  /\ UNCHANGED <<users, tables, seq, session, kind, faulty>>

\* a column without the unique constraint
UniqueViolation_off(rows, values, selfId) == FALSE

\* the unique constraint on sl_no: would row selfId with these values clash
UniqueViolation(rows, values, selfId) ==
  /\ "slNo" \in DOMAIN values
  /\ \E row \in rows : row.id # selfId /\ row.slNo = values.slNo

\* POST /api/expenses, POST /api/gains (createExpense / createGain).  A
\* rejected insert has drawn its id from the serial all the same.
Create(r) ==
  /\ req[r].pc = "handler" /\ req[r].route = "create"
  /\ \E b \in CreateBodies(kind) :
       LET q == [req[r] EXCEPT !.body = b]
           user == CHOOSE u \in req[r].user : TRUE
           input == Spread(b, [createdBy |-> user.id])
           values == Restrict(input, InsertFields)
           row == Spread(values, [id |-> seq[kind]])
           failMsg == Msg(kind, "Failed to create expense",
                                "Failed to create gain")
       IN IF ~ZodOk(input, InsertFields)
          THEN /\ Finish(r, Answer(q, 400, "Validation error", {}))
               /\ UNCHANGED <<tables, seq>>
          ELSE \/ /\ faulty
                  /\ Finish(r, Failed(q, failMsg))
                  /\ UNCHANGED <<tables, seq>>
               \/ /\ seq[kind] <= MaxId
                  /\ seq' = [seq EXCEPT ![kind] = @ + 1]
                  /\ IF UniqueViolation(tables[kind], values, 0)
                     THEN /\ Finish(r, Answer(q, 500, failMsg, {}))
                          /\ UNCHANGED tables
                     ELSE /\ tables' = [tables EXCEPT ![kind] = @ \cup {row}]
                          /\ Finish(r, Answer(q, 201, "", {row}))
  /\ UNCHANGED <<users, session, kind, faulty>>

\* PUT and DELETE /api/{expenses|gains}/:id up to getExpense / getGain
Lookup(r) ==
  /\ req[r].pc = "handler" /\ req[r].route \in {"put", "delete"}
  /\ \E p \in IdParams :
       LET q == [req[r] EXCEPT !.param = p]
           id == parseInt(p)
       IN IF id = NaN
          THEN Finish(r, Answer(q, 400, Msg(kind, "Invalid expense ID",
                                                  "Invalid gain ID"), {}))
          ELSE \/ /\ faulty
                  /\ Finish(r, Failed(q, IF q.route = "put"
                         THEN Msg(kind, "Failed to update expense",
                                        "Failed to update gain")
                         ELSE Msg(kind, "Failed to delete expense",
                                        "Failed to delete gain")))
               \/ IF \A row \in tables[kind] : row.id # id
                  THEN Finish(r, Answer(q, 404, Msg(kind, "Expense not found",
                                                    "Gain not found"), {}))
                  ELSE /\ req' = [req EXCEPT ![r] = [q EXCEPT !.pc = "write"]]
                       /\ out' = NoOut
  /\ UNCHANGED <<users, tables, seq, session, kind, faulty>>

\* PUT /api/{expenses|gains}/:id from updateExpense / updateGain on.
\* A set clause without columns is rejected before any row is touched.
Update(r) ==
  /\ req[r].pc = "write" /\ req[r].route = "put"
  /\ \E b \in UpdateBodies(kind) :
       LET q == [req[r] EXCEPT !.body = b]
           id == parseInt(q.param)
           values == Restrict(b, Columns)
           matched == {row \in tables[kind] : row.id = id}
           failMsg == Msg(kind, "Failed to update expense",
                                "Failed to update gain")
       IN \/ /\ faulty
             /\ Finish(r, Failed(q, failMsg))
             /\ UNCHANGED tables
          \/ IF DOMAIN values = {}
             THEN /\ Finish(r, Answer(q, 500, failMsg, {}))
                  /\ UNCHANGED tables
             ELSE IF matched = {}
             THEN /\ Finish(r, Answer(q, 200, "", {}))
                  /\ UNCHANGED tables
             ELSE IF UniqueViolation(tables[kind], values, id)
             THEN /\ Finish(r, Answer(q, 500, failMsg, {}))
                  /\ UNCHANGED tables
             ELSE \E old \in matched :
                    /\ tables' = [tables EXCEPT ![kind] =
                                    (@ \ {old}) \cup {Spread(old, values)}]
                    /\ Finish(r, Answer(q, 200, "", {Spread(old, values)}))
  /\ UNCHANGED <<users, seq, session, kind, faulty>>

\* DELETE /api/{expenses|gains}/:id from deleteExpense / deleteGain on
Delete(r) ==
  /\ req[r].pc = "write" /\ req[r].route = "delete"
  /\ LET id == parseInt(req[r].param)
         matched == {row \in tables[kind] : row.id = id}
     IN \/ /\ faulty
           /\ Finish(r, Failed(req[r], Msg(kind, "Failed to delete expense",
                                                "Failed to delete gain")))
           /\ UNCHANGED tables
        \/ /\ tables' = [tables EXCEPT ![kind] = @ \ matched]
           /\ Finish(r, [Answer(req[r], 200,
                           Msg(kind, "Expense deleted successfully",
                                     "Gain deleted successfully"), {})
                         EXCEPT !.removed = (matched # {})])
  /\ UNCHANGED <<users, seq, session, kind, faulty>>

\* POST /api/users up to getUserByUsername
UserLookup(r) ==
  /\ req[r].pc = "handler" /\ req[r].route = "users.post"
  /\ \E b \in UserBodies :
       LET q == [req[r] EXCEPT !.body = b]
       IN IF ~ZodOk(b, UserRequired)
          THEN Finish(r, Answer(q, 400, "Validation error", {}))
          ELSE \/ /\ faulty
                  /\ Finish(r, Failed(q, "Failed to create user"))
               \/ IF \E u \in users : u.username = b.username
                  THEN Finish(r, Answer(q, 400, "Username already exists", {}))
                  ELSE /\ req' = [req EXCEPT ![r] = [q EXCEPT !.pc = "write"]]
                       /\ out' = NoOut
  /\ UNCHANGED <<users, tables, seq, session, kind, faulty>>

\* POST /api/users from createUser on
UserCreate(r) ==
  /\ req[r].pc = "write" /\ req[r].route = "users.post"
  /\ LET insertUser == Restrict(req[r].body, UserFields)
         role == IF "role" \in DOMAIN insertUser /\ insertUser.role # ""
                 THEN insertUser.role ELSE "staff"
         user == Spread(insertUser, [role |-> role, id |-> seq["users"]])
     IN \/ /\ faulty
           /\ Finish(r, Failed(req[r], "Failed to create user"))
           /\ UNCHANGED <<users, seq>>
        \/ /\ seq["users"] <= MaxUsers
           /\ seq' = [seq EXCEPT !["users"] = @ + 1]
           /\ IF \E u \in users : u.username = insertUser.username
              THEN /\ Finish(r, Answer(req[r], 500, "Failed to create user", {}))
                   /\ UNCHANGED users
              ELSE /\ users' = users \cup {user}
                   /\ Finish(r, Answer(req[r], 201, "", {UserInfo(user)}))
  /\ UNCHANGED <<tables, session, kind, faulty>>

\* the requests that reach the record tables, any number of them at once
Next ==
  \/ Login(DefaultLogins)
  \/ Logout
  \/ \E r \in Reqs :
       \/ authenticate(r, {"nextslno", "create", "put", "delete"})
       \/ NextSlNoRoute(r)
       \/ Create(r)
       \/ Lookup(r)
       \/ Update(r)
       \/ Delete(r)

InitQuiet == Init /\ ~faulty

Spec == InitQuiet /\ [][Next]_vars

\* every route, one request at a time, on a database that can fail
NextSeq ==
  \/ Login(LoginBodies)
  \/ Logout
  \/ authenticate(1, Routes)
  \/ GetList(1)
  \/ NextSlNoRoute(1)
  \/ Create(1)
  \/ Lookup(1)
  \/ Update(1)
  \/ Delete(1)
  \/ UserLookup(1)
  \/ UserCreate(1)

SpecSeq == Init /\ [][NextSeq]_vars

\* logins, logouts and the user routes, one request at a time
NextLogin ==
  \/ Login(LoginBodies)
  \/ Logout
  \/ authenticate(1, {"me", "users.post"})
  \/ UserLookup(1)
  \/ UserCreate(1)

SpecLogin == Init /\ [][NextLogin]_vars

\* logins and the creation of records, one request at a time
NextCreate ==
  \/ Login(DefaultLogins)
  \/ Logout
  \/ authenticate(1, {"nextslno", "create"})
  \/ NextSlNoRoute(1)
  \/ Create(1)

SpecCreate == InitQuiet /\ [][NextCreate]_vars

\* logins and the admin routes, with the creation of the records they
\* address, one request at a time
NextAdmin ==
  \/ Login(DefaultLogins)
  \/ Logout
  \/ authenticate(1, {"create"} \cup AdminRoutes)
  \/ Create(1)
  \/ Lookup(1)
  \/ Update(1)
  \/ Delete(1)
  \/ UserLookup(1)
  \/ UserCreate(1)

SpecAdmin == InitQuiet /\ [][NextAdmin]_vars

\* --------------------------------------------- the slNo computation alone
\* suffixes of the slNo values a table can hold when the run starts
SlNums == {1, 2, 5, 998, 999, 1000}

RowOf(k, n, id) ==
  Spread(BaseBody, [id |-> id, slNo |-> SlNoOf(k, n), createdBy |-> 2])

\* a table holding one row per suffix in N, ids in the order of creation
TableOf(k, N) ==
  {RowOf(k, n, Cardinality({m \in N : m <= n})) : n \in N}

\* staff1 is logged in and the table of the run's kind holds any of the
\* sets of slNo values, the other table none
InitSl ==
  /\ users = DefaultUsers
  /\ kind \in Kinds
  /\ \E N \in SUBSET SlNums :
       /\ tables = [k \in Kinds |-> IF k = kind THEN TableOf(k, N) ELSE {}]
       /\ seq = [t \in Kinds \cup {"users"} |->
                   IF t = "users" THEN 3
                   ELSE IF t = kind THEN Cardinality(N) + 1 ELSE 1]
  /\ session = [s \in Sessions |-> 2]
  /\ faulty = FALSE
  /\ req = [r \in Reqs |-> Idle]
  /\ out = NoOut

NextSl ==
  \E r \in Reqs :
    \/ authenticate(r, {"nextslno"})
    \/ NextSlNoRoute(r)

SpecSl == InitSl /\ [][NextSl]_vars

\* ------------------------------------------------------------ properties
\* the decimal digits of n, at least three of them, computed digit by digit
Dec(n) ==
  LET d(i) == Digits[((n \div i) % 10) + 1]
  IN IF n < 1000 THEN <<d(100), d(10), d(1)>>
     ELSE IF n < 10000 THEN <<d(1000), d(100), d(10), d(1)>>
     ELSE <<d(10000), d(1000), d(100), d(10), d(1)>>

\* the suffixes, as numbers, of the slNo values stored for the run's kind
Suffixes ==
  {CHOOSE n \in SlNums : row.slNo = Prefix(kind) \o Dec(n) : row \in tables[kind]}

Largest(N) == CHOOSE n \in N : \A m \in N : m <= n

NextSlNoAnswered == out.route = "nextslno" /\ out.status = 200

\* C3: next-slno answers prefix + "001" on an empty table, and otherwise,
\* when every stored suffix is a 3-digit zero-padded number in 1..998, the
\* prefix followed by the largest stored suffix plus one, padded to 3 digits.
C3_NextIsMaxPlusOne ==
  NextSlNoAnswered =>
    /\ tables[kind] = {} => out.data = {[slNo |-> Prefix(kind) \o Dec(1)]}
    /\ (tables[kind] # {} /\ Suffixes \subseteq 1..998) =>
         out.data = {[slNo |-> Prefix(kind) \o Dec(Largest(Suffixes) + 1)]}

\* suffixes 1, 2, 5 stored and EXP006 answered
C3_Witness ==
  /\ NextSlNoAnswered /\ kind = "expense" /\ Suffixes = {1, 2, 5}
  /\ out.data = {[slNo |-> <<"E", "X", "P", "0", "0", "6">>]}

\* C4: when the numerically largest stored suffix is n >= 999, next-slno
\* answers the prefix followed by the decimal digits of n + 1.
C4_NumericMax ==
  (NextSlNoAnswered /\ tables[kind] # {} /\ Largest(Suffixes) >= 999) =>
    out.data = {[slNo |-> Prefix(kind) \o Dec(Largest(Suffixes) + 1)]}

\* the row a PUT or DELETE addresses, as the table holds it before the step
Target == {row \in tables[kind] : row.id = parseInt(out'.param)}

IsStaff(o) == o.user # {} /\ \A u \in o.user : u.role = "staff"
IsAdmin(o) == o.user # {} /\ \A u \in o.user : u.role = "admin"

\* the step finishes a create or an update whose slNo another row holds
DupStep ==
  /\ out'.route \in {"create", "put"} /\ "slNo" \in DOMAIN out'.body
  /\ \E row \in tables[kind] :
       /\ row.slNo = out'.body.slNo
       /\ out'.route = "put" => row.id # parseInt(out'.param)

SlNoUnique ==
  \A k \in Kinds : \A a, b \in tables[k] : a # b => a.slNo # b.slNo

\* C1: under any interleaving of next-slno, create, update and delete
\* requests no two rows of a kind share a slNo, and a request that would
\* introduce a duplicate leaves the tables as they were.
C1_SlNoUnique ==
  /\ []SlNoUnique
  /\ [][DupStep => store' = store]_vars

\* a create was refused because a stored row holds its slNo
C1_Witness ==
  /\ out.route = "create" /\ out.status = 500 /\ "slNo" \in DOMAIN out.body
  /\ \E row \in tables[kind] : row.slNo = out.body.slNo

\* C2: a request to an admin route changes the tables only when authenticate
\* found its session bound to an admin; from a session bound to a staff user
\* it is answered 403 and changes nothing.
C2_AdminOnly ==
  /\ [][\A r \in Reqs :
          (req[r].pc = "idle" /\ req'[r].pc = "handler") =>
            req'[r].user = {u \in users : u.id = session[req'[r].sess]}]_vars
  /\ [](\A r \in Reqs :
          (req[r].pc # "idle" /\ req[r].route \in AdminRoutes) =>
            (req[r].user # {} /\ \A u \in req[r].user : u.role = "admin"))
  /\ [][out'.route \in AdminRoutes =>
          /\ store' # store => IsAdmin(out')
          /\ IsStaff(out') => (out'.status = 403 /\ store' = store)]_vars

\* a staff session is refused the deletion of a stored row
C2_Witness ==
  /\ out.route = "delete" /\ out.status = 403 /\ IsStaff(out)
  /\ tables[kind] # {}

Seven == {"date", "time", "name", "type", "detail", "paymentType", "amount"}

\* the step finishes a POST /api/expenses of a staff session on an empty
\* expenses table, no store call failing
StaffCreateOnEmpty ==
  /\ out'.route = "create" /\ out'.answered /\ ~out'.storeFailed
  /\ kind = "expense" /\ IsStaff(out') /\ tables["expense"] = {}

\* the step stored exactly one expense, EXP001, created by the session's user
StoredFirst ==
  /\ out'.status = 201
  /\ \E row \in tables'["expense"] :
       /\ tables'["expense"] = {row}
       /\ row.slNo = <<"E", "X", "P", "0", "0", "1">>
       /\ \A u \in out'.user : row.createdBy = u.id

\* C5 as stated: a body of exactly the seven fields, without slNo, is
\* answered 201 and stored as EXP001.
C5_CreateWithoutSlNo ==
  [][(StaffCreateOnEmpty /\ DOMAIN out'.body = Seven) => StoredFirst]_vars

\* C5 amended: the body has to carry slNo "EXP001" as well to be stored as
\* EXP001; the body of the seven fields alone is answered 400, nothing stored.
C5_CreateWithSlNo ==
  [][StaffCreateOnEmpty =>
       /\ (/\ DOMAIN out'.body = Seven \cup {"slNo"}
           /\ out'.body.slNo = <<"E", "X", "P", "0", "0", "1">>) => StoredFirst
       /\ DOMAIN out'.body = Seven => (out'.status = 400 /\ store' = store)]_vars

\* staff1 created EXP001 on the empty table
C5_Witness ==
  /\ out.route = "create" /\ out.status = 201 /\ IsStaff(out)
  /\ kind = "expense" /\ tables["expense"] = out.data
  /\ DOMAIN out.body = Seven \cup {"slNo"}
  /\ \A row \in out.data : row.slNo = <<"E", "X", "P", "0", "0", "1">>

\* C6: a create whose slNo a stored row of the kind holds, or whose username
\* a stored user holds, is answered 400 and changes nothing.
C6_ConflictIs400 ==
  [][(/\ out'.answered /\ ~out'.storeFailed
      /\ \/ /\ out'.route = "create" /\ "slNo" \in DOMAIN out'.body
            /\ \E row \in tables[kind] : row.slNo = out'.body.slNo
         \/ /\ out'.route = "users.post" /\ "username" \in DOMAIN out'.body
            /\ \E u \in users : u.username = out'.body.username)
       => (out'.status = 400 /\ store' = store)]_vars

\* C7: a login with a non-empty username and password that match no stored
\* user is answered 401 with one message and leaves the session as it was,
\* whether or not the username is stored; a matching pair binds the session
\* to the user's id and is answered 200 with the user, password left out.
C7_LoginUniform ==
  [][(/\ out'.route = "login" /\ out'.answered /\ ~out'.storeFailed
      /\ out'.body.username # "" /\ out'.body.password # "")
       => LET match == {u \in users : /\ u.username = out'.body.username
                                      /\ u.password = out'.body.password}
          IN IF match = {}
             THEN /\ out'.status = 401
                  /\ out'.message = "Invalid username or password"
                  /\ out'.data = {}
                  /\ session' = session
             ELSE /\ out'.status = 200
                  /\ \E u \in match :
                       /\ session' = [session EXCEPT ![out'.sess] = u.id]
                       /\ out'.data = {[id |-> u.id, username |-> u.username,
                                        name |-> u.name, role |-> u.role]}]_vars

\* a stored username with a wrong password was answered 401
C7_Witness ==
  /\ out.route = "login" /\ out.status = 401
  /\ \E u \in users : u.username = out.body.username
  /\ \E sess \in Sessions : session[sess] # 0

\* C8: an admin PUT with an empty body is answered with the unchanged row
\* and changes nothing; a PUT for an id no row has is answered 404 and
\* creates none; otherwise the fields the body does not name keep their
\* values.
C8_UpdatePartial ==
  [][(/\ out'.route = "put" /\ out'.answered /\ ~out'.storeFailed
      /\ parseInt(out'.param) # NaN)
       => IF Target = {}
          THEN out'.status = 404 /\ tables' = tables
          ELSE IF DOMAIN out'.body = {}
          THEN out'.status = 200 /\ out'.data = Target /\ tables' = tables
          ELSE out'.status = 200 =>
                 \A old \in Target : \E new \in tables'[kind] :
                   /\ new.id = old.id
                   /\ \A f \in Columns \ DOMAIN out'.body : new[f] = old[f]]_vars

\* C9: a request during which a store call failed is answered, with 500.
C9_FailureIs500 ==
  out.storeFailed => (out.answered /\ out.status = 500)

\* C10: a DELETE is answered 200 only if it removed the row itself, a PUT
\* only with the row it updated.
C10_AnswerMatchesEffect ==
  /\ (out.route = "delete" /\ out.status = 200) => out.removed
  /\ (out.route = "put" /\ out.status = 200) =>
       (out.data # {} /\ out.data \subseteq tables[kind])

====
